---- MODULE Spec2Model ----
(***************************************************************************)
(* ISCO pump controller client (ISCO_comunication.py).                     *)
(*                                                                         *)
(* Two kinds of thread share one Modbus master and one global flag:        *)
(*   - the foreground thread: setup(), then the command loop of main();    *)
(*   - one logReadings thread per "s" command (thread.start_new_thread).   *)
(* master.execute is a blocking request/response exchange: it is modelled  *)
(* as an issue step (the request is in flight) and a completion step       *)
(* (a reply, or an exception raised by the transport).                     *)
(***************************************************************************)
EXTENDS Integers, Sequences, FiniteSets, TLC

\* -------------------------------------------------------------------------
\* Bounds
\* -------------------------------------------------------------------------
\* Number of logReadings threads that may be alive at once.
MaxPollers == 2

\* -------------------------------------------------------------------------
\* Program constants
\* -------------------------------------------------------------------------
UNITS_ADDRESS == 84
UNITS_COUNT == 8
PUMP_STATUS_ADDRESS == 0
PUMP_STATUS_COUNT == 2
LIMITS_ADDRESS == 32
LIMITS_COUNT == 20
LIVE_ADDRESS == 72
LIVE_COUNT == 10
WORD_SHIFT == 16
WORD_BITS == 16

READ_COILS == "READ_COILS"
READ_HOLDING_REGISTERS == "READ_HOLDING_REGISTERS"
WRITE_SINGLE_COIL == "WRITE_SINGLE_COIL"

MainThread == 0
Pollers == 1..MaxPollers
Threads == {MainThread} \cup Pollers

\* Exceptions master.execute can raise (response timeout, malformed reply).
TransportErrors == {"Timeout", "ModbusInvalidResponseError"}

\* A local name that no branch has assigned.
Unbound == "<unbound>"

NoReq == [fn |-> "none", addr |-> 0, n |-> 0, val |-> 0]
ReadReq(fn, addr, n) == [fn |-> fn, addr |-> addr, n |-> n, val |-> 0]
WriteReq(addr, val) == [fn |-> WRITE_SINGLE_COIL, addr |-> addr, n |-> 1, val |-> val]

VARIABLES
    INTERRUPT_FLAG,   \* the global stop flag
    mainPc,           \* position of the foreground thread
    mainExc,          \* exception that ended the foreground thread, or "none"
    cmd,              \* the word ControlPumps has read and is acting on, or ""
    caller,           \* who called ListPumpSettings: "setup" or "main"
    queryLog,         \* requests issued by the current (or last) ListPumpSettings
    locals,           \* locals of ListPumpSettings
    report,           \* last settings block written by logging.info
    poller,           \* position of each logReadings thread ("idle": no thread)
    readings,         \* local `readings` of each logReadings thread
    unlogged,         \* per thread: live reads answered minus samples given to the sink
    sink,             \* last line given to data_logger.info
    inflight,         \* the request each thread has on the wire, or NoReq
    coils,            \* device: pump run coils 0 and 1
    unit_coils,       \* device: unit coils 84..91
    staleStop,        \* the last stop signal found no logReadings thread alive
    settled,          \* a settling delay has elapsed since the last completion
    clean,            \* threads whose current wait began after the last completion
    stopPending,      \* pollers alive at the last stop signal, not yet idle
    codecPc,          \* codec harness: position
    codecIn,          \* codec harness: input coil vector
    codecOut          \* codec harness: result

vars == <<INTERRUPT_FLAG, mainPc, mainExc, cmd, caller, queryLog, locals, report, poller,
          readings, unlogged, sink, inflight, coils, unit_coils, staleStop, settled, clean,
          stopPending, codecPc, codecIn, codecOut>>

progVars == <<INTERRUPT_FLAG, mainPc, mainExc, cmd, caller, queryLog, locals, report, poller,
              readings, unlogged, sink, inflight, coils, unit_coils, staleStop, settled, clean,
              stopPending>>

codecVars == <<codecPc, codecIn, codecOut>>

\* -------------------------------------------------------------------------
\* Register codec
\* -------------------------------------------------------------------------
Bits == {0, 1}
BitVectors(n) == [1..n -> Bits]

\* Python slice tup[lo:hi] of a 0-indexed sequence.
Slice(s, lo, hi) == SubSeq(s, lo + 1, hi)


\* Unsigned numbers of up to two words and a carry are kept as <<high, low>>
\* with low below 2^WORD_BITS, so that 32-bit patterns stay exact.
WordBase == 2 ^ WORD_BITS
Words == 0..(WordBase - 1)

\* a << k for a word a and 0 <= k <= WORD_BITS.
ShiftLeft(a, k) ==
    <<a \div (2 ^ (WORD_BITS - k)), (a % (2 ^ (WORD_BITS - k))) * (2 ^ k)>>

\* x + b for a two-word number x and a word b, with the carry.
AddWord(x, b) ==
    <<x[1] + ((x[2] + b) \div WordBase), (x[2] + b) % WordBase>>

\* TupleToFloat with the first word shifted by half a word only.
TupleToFloat_ShortShift(tup) ==
    LET a == tup[1]
        b == tup[2]
        num == AddWord(ShiftLeft(a, WORD_SHIFT \div 2), b)
    IN  num

\* TupleToFloat: num = (a << 16) + b, the 32-bit pattern handed to
\* struct.pack('I', num); the float returned is that pattern reinterpreted,
\* so it is represented by the pattern.
TupleToFloat(tup) ==
    LET a == tup[1]
        b == tup[2]
        num == AddWord(ShiftLeft(a, WORD_SHIFT), b)
    IN  num

\* ReadUnits with both elif chains scanned from the high index down.
ReadUnits_HighestWins(unit_byte) ==
    LET PRESSURE_UNIT ==
            IF unit_byte[4] # 0 THEN "PSI"
            ELSE IF unit_byte[3] # 0 THEN "kPa"
            ELSE IF unit_byte[2] # 0 THEN "BAR"
            ELSE IF unit_byte[1] # 0 THEN "ATM"
            ELSE Unbound
        FLOW_UNIT ==
            IF unit_byte[8] # 0 THEN "ul/hr"
            ELSE IF unit_byte[7] # 0 THEN "ul/min"
            ELSE IF unit_byte[6] # 0 THEN "ml/hr"
            ELSE IF unit_byte[5] # 0 THEN "ml/min"
            ELSE Unbound
    IN  IF PRESSURE_UNIT = Unbound \/ FLOW_UNIT = Unbound
        THEN [exc |-> "UnboundLocalError", PRESSURE_UNIT |-> PRESSURE_UNIT,
              FLOW_UNIT |-> FLOW_UNIT]
        ELSE [exc |-> "none", PRESSURE_UNIT |-> PRESSURE_UNIT,
              FLOW_UNIT |-> FLOW_UNIT]

\* ReadUnits, after the coils are read: the if/elif chains over unit_byte and
\* the return.  Returning a name no branch assigned raises UnboundLocalError.
ReadUnits(unit_byte) ==
    LET PRESSURE_UNIT ==
            IF unit_byte[1] # 0 THEN "ATM"
            ELSE IF unit_byte[2] # 0 THEN "BAR"
            ELSE IF unit_byte[3] # 0 THEN "kPa"
            ELSE IF unit_byte[4] # 0 THEN "PSI"
            ELSE Unbound
        FLOW_UNIT ==
            IF unit_byte[5] # 0 THEN "ml/min"
            ELSE IF unit_byte[6] # 0 THEN "ml/hr"
            ELSE IF unit_byte[7] # 0 THEN "ul/min"
            ELSE IF unit_byte[8] # 0 THEN "ul/hr"
            ELSE Unbound
    IN  IF PRESSURE_UNIT = Unbound \/ FLOW_UNIT = Unbound
        THEN [exc |-> "UnboundLocalError", PRESSURE_UNIT |-> PRESSURE_UNIT,
              FLOW_UNIT |-> FLOW_UNIT]
        ELSE [exc |-> "none", PRESSURE_UNIT |-> PRESSURE_UNIT,
              FLOW_UNIT |-> FLOW_UNIT]

\* CheckIfOn with pump B's state taken from pump A's coil.
CheckIfOn_BFromA(pump_status) ==
    LET pumpA == IF pump_status[1] # 0 THEN "on" ELSE "off"
        pumpB == IF pump_status[1] # 0 THEN "on" ELSE "off"
    IN  <<pumpA, pumpB>>

\* CheckIfOn, after the coils are read.
CheckIfOn(pump_status) ==
    LET pumpA == IF pump_status[1] # 0 THEN "on" ELSE "off"
        pumpB == IF pump_status[2] # 0 THEN "on" ELSE "off"
    IN  <<pumpA, pumpB>>

\* CheckMaxPressureFlow, after the registers are read.
CheckMaxPressureFlow(regs) ==
    LET pressure_A == TupleToFloat(Slice(regs, 0, 2))
        pressure_B == TupleToFloat(Slice(regs, 2, 4))
        flowRate_A == TupleToFloat(Slice(regs, 16, 18))
        flowRate_B == TupleToFloat(Slice(regs, 18, 20))
    IN  <<pressure_A, flowRate_A, pressure_B, flowRate_B>>

\* ReadRegisters with pump B's pairs taken right after pump A's, the two
\* unused words not skipped.
ReadRegisters_NoGap(regs) ==
    LET pressure_A == TupleToFloat(Slice(regs, 0, 2))
        flowRate_A == TupleToFloat(Slice(regs, 2, 4))
        pressure_B == TupleToFloat(Slice(regs, 4, 6))
        flowRate_B == TupleToFloat(Slice(regs, 6, 8))
    IN  <<pressure_A, flowRate_A, pressure_B, flowRate_B>>

\* ReadRegisters, after the registers are read (DEBUG_MODE is False).
ReadRegisters(regs) ==
    LET pressure_A == TupleToFloat(Slice(regs, 0, 2))
        flowRate_A == TupleToFloat(Slice(regs, 2, 4))
        pressure_B == TupleToFloat(Slice(regs, 6, 8))
        flowRate_B == TupleToFloat(Slice(regs, 8, 10))
    IN  <<pressure_A, flowRate_A, pressure_B, flowRate_B>>

\* -------------------------------------------------------------------------
\* The requests of the program
\* -------------------------------------------------------------------------
ReadUnitsRequest == ReadReq(READ_COILS, UNITS_ADDRESS, UNITS_COUNT)
CheckIfOnRequest == ReadReq(READ_COILS, PUMP_STATUS_ADDRESS, PUMP_STATUS_COUNT)
CheckMaxPressureFlowRequest ==
    ReadReq(READ_HOLDING_REGISTERS, LIMITS_ADDRESS, LIMITS_COUNT)
\* The live read sent with the function code of the coil write.
ReadRegistersRequest_AsWrite ==
    [fn |-> WRITE_SINGLE_COIL, addr |-> LIVE_ADDRESS, n |-> LIVE_COUNT, val |-> 0]

ReadRegistersRequest == ReadReq(READ_HOLDING_REGISTERS, LIVE_ADDRESS, LIVE_COUNT)

\* ControlPumps: the command words and the write each one issues.
PumpCommands == {"onA", "offA", "onB", "offB"}
\* PumpCommandRequest with the offB branch left writing coil 0.
PumpCommandRequest_OffBWritesA(word) ==
    IF word = "onA" THEN WriteReq(0, 1)
    ELSE IF word = "offA" THEN WriteReq(0, 0)
    ELSE IF word = "onB" THEN WriteReq(1, 1)
    ELSE WriteReq(0, 0)

PumpCommandRequest(word) ==
    IF word = "onA" THEN WriteReq(0, 1)
    ELSE IF word = "offA" THEN WriteReq(0, 0)
    ELSE IF word = "onB" THEN WriteReq(1, 1)
    ELSE WriteReq(1, 0)

\* -------------------------------------------------------------------------
\* The device behind the master: what a healthy exchange answers
\* -------------------------------------------------------------------------
\* Holding registers are not written by the program; register a holds word a.
HoldingRegister(a) == a

CoilAt(a) ==
    IF a < PUMP_STATUS_ADDRESS + PUMP_STATUS_COUNT
    THEN coils[a + 1]
    ELSE unit_coils[a - UNITS_ADDRESS + 1]

\* The value master.execute returns for a read request.
Reply(req) ==
    IF req.fn = READ_COILS
    THEN [i \in 1..req.n |-> CoilAt(req.addr + i - 1)]
    ELSE [i \in 1..req.n |-> HoldingRegister(req.addr + i - 1)]

\* Unit settings a device may hold in the session model.
UnitSettings == {<<0, 1, 0, 0, 1, 0, 0, 0>>, <<0, 0, 0, 0, 1, 0, 0, 0>>}


\* -------------------------------------------------------------------------
\* Initial state: the program has been started, the port prompt of setup()
\* is showing, nothing has been sent yet.
\* -------------------------------------------------------------------------
NoLocals == [PRESSURE_UNIT |-> Unbound, FLOW_UNIT |-> Unbound,
             limits |-> <<>>, on |-> <<>>]

NoReport == [units |-> <<>>, maxPressure |-> <<>>, maxFlow |-> <<>>,
             pumps |-> <<>>]

ProgInit ==
    /\ INTERRUPT_FLAG = FALSE
    /\ mainPc = "setup_port"
    /\ mainExc = "none"
    /\ cmd = ""
    /\ caller = "setup"
    /\ queryLog = <<>>
    /\ locals = NoLocals
    /\ report = NoReport
    /\ poller = [p \in Pollers |-> "idle"]
    /\ readings = [p \in Pollers |-> <<>>]
    /\ unlogged = [p \in Pollers |-> 0]
    /\ sink = <<>>
    /\ inflight = [t \in Threads |-> NoReq]
    /\ coils \in BitVectors(PUMP_STATUS_COUNT)
    /\ unit_coils \in UnitSettings
    /\ staleStop = FALSE
    /\ settled = TRUE
    /\ clean = {}
    /\ stopPending = {}

CodecOff ==
    /\ codecPc = "off"
    /\ codecIn = <<>>
    /\ codecOut = <<>>

Init == ProgInit /\ CodecOff

\* -------------------------------------------------------------------------
\* Helpers of the actions
\* -------------------------------------------------------------------------
Alive(p) == poller[p] # "idle"
InFlight(t) == inflight[t] # NoReq

\* Thread t leaves a time.sleep: a whole delay has passed since the last
\* completion when the sleep began after it.
AfterSleep(t) == settled \/ t \in clean

\* Thread t leaves a raw_input: the user may or may not have taken at least
\* a settling delay to answer.
AfterInput(t, waited) == settled \/ (waited /\ t \in clean)

\* The process ends (sys.exit, return from main, or an exception that leaves
\* main): the logReadings threads end with it.
ProcessEnds ==
    /\ poller' = [p \in Pollers |-> "idle"]
    /\ readings' = [p \in Pollers |-> <<>>]
    /\ unlogged' = [p \in Pollers |-> 0]
    /\ inflight' = [t \in Threads |-> NoReq]
    /\ stopPending' = {}
    /\ clean' = {}
    /\ locals' = NoLocals

\* An exception leaves main(): nothing in main or setup catches it.
Uncaught(exc) ==
    /\ mainPc' = "crashed"
    /\ mainExc' = exc
    /\ cmd' = ""
    /\ ProcessEnds

\* -------------------------------------------------------------------------
\* setup(): the port loop
\* -------------------------------------------------------------------------
setup_Exit ==
    /\ mainPc = "setup_port"
    /\ mainPc' = "exited"
    /\ ProcessEnds
    /\ UNCHANGED <<INTERRUPT_FLAG, mainExc, cmd, caller, queryLog, report, sink, coils,
                   unit_coils, staleStop, settled, codecVars>>

\* A port is chosen, the master is built and CheckIfOn probes the device.
setup_Probe ==
    /\ mainPc = "setup_port"
    /\ \E waited \in BOOLEAN : settled' = AfterInput(MainThread, waited)
    /\ mainPc' = "setup_probe"
    /\ inflight' = [inflight EXCEPT ![MainThread] = CheckIfOnRequest]
    /\ clean' = clean \ {MainThread}
    /\ UNCHANGED <<INTERRUPT_FLAG, mainExc, cmd, caller, queryLog, locals, report, poller,
                   readings, unlogged, sink, coils, unit_coils, staleStop, stopPending, codecVars>>

\* The probe answers: leave the loop and call ListPumpSettings(master).
setup_ProbeReply ==
    /\ mainPc = "setup_probe"
    /\ mainPc' = "lps_sleep1"
    /\ caller' = "setup"
    /\ queryLog' = <<>>
    /\ inflight' = [inflight EXCEPT ![MainThread] = NoReq]
    /\ settled' = FALSE
    /\ clean' = {MainThread}
    /\ UNCHANGED <<INTERRUPT_FLAG, mainExc, cmd, locals, report, poller, readings, unlogged,
                   sink, coils, unit_coils, staleStop, stopPending, codecVars>>

\* The probe raises: both except clauses print and continue the loop.
setup_ProbeFail ==
    /\ mainPc = "setup_probe"
    /\ mainPc' = "setup_port"
    /\ inflight' = [inflight EXCEPT ![MainThread] = NoReq]
    /\ settled' = FALSE
    /\ clean' = {MainThread}
    /\ UNCHANGED <<INTERRUPT_FLAG, mainExc, cmd, caller, queryLog, locals, report, poller,
                   readings, unlogged, sink, coils, unit_coils, staleStop, stopPending, codecVars>>

\* -------------------------------------------------------------------------
\* ListPumpSettings(master)
\* -------------------------------------------------------------------------
\* One time.sleep(0.2) ends and the next request is issued.
ListPumpSettings_Issue(from, req, to) ==
    /\ mainPc = from
    /\ mainPc' = to
    /\ inflight' = [inflight EXCEPT ![MainThread] = req]
    /\ settled' = AfterSleep(MainThread)
    /\ clean' = clean \ {MainThread}
    /\ queryLog' = Append(queryLog, req)
    /\ UNCHANGED <<INTERRUPT_FLAG, mainExc, cmd, caller, locals, report, poller,
                   readings, unlogged, sink, coils, unit_coils, staleStop, stopPending, codecVars>>

\* A request of ListPumpSettings is answered; the next time.sleep(0.2) begins.
ListPumpSettings_Answered(to, newLocals) ==
    /\ mainPc' = to
    /\ locals' = newLocals
    /\ inflight' = [inflight EXCEPT ![MainThread] = NoReq]
    /\ settled' = FALSE
    /\ clean' = {MainThread}
    /\ UNCHANGED <<INTERRUPT_FLAG, mainExc, cmd, caller, queryLog, report, poller, readings, unlogged,
                   sink, coils, unit_coils, staleStop, stopPending, codecVars>>

ListPumpSettings_ReadUnits ==
    ListPumpSettings_Issue("lps_sleep1", ReadUnitsRequest, "lps_units")

ListPumpSettings_ReadUnitsReply ==
    /\ mainPc = "lps_units"
    /\ LET r == ReadUnits(Reply(inflight[MainThread]))
       IN  IF r.exc = "none"
           THEN ListPumpSettings_Answered("lps_sleep2",
                    [locals EXCEPT !.PRESSURE_UNIT = r.PRESSURE_UNIT,
                                   !.FLOW_UNIT = r.FLOW_UNIT])
           ELSE /\ Uncaught(r.exc)
                /\ settled' = FALSE
                /\ UNCHANGED <<INTERRUPT_FLAG, caller, queryLog, report, sink, coils,
                               unit_coils, staleStop, codecVars>>

ListPumpSettings_CheckMaxPressureFlow ==
    ListPumpSettings_Issue("lps_sleep2", CheckMaxPressureFlowRequest, "lps_limits")

ListPumpSettings_CheckMaxPressureFlowReply ==
    /\ mainPc = "lps_limits"
    /\ ListPumpSettings_Answered("lps_sleep3",
           [locals EXCEPT !.limits =
                CheckMaxPressureFlow(Reply(inflight[MainThread]))])

ListPumpSettings_CheckIfOn ==
    ListPumpSettings_Issue("lps_sleep3", CheckIfOnRequest, "lps_run")

ListPumpSettings_CheckIfOnReply ==
    /\ mainPc = "lps_run"
    /\ ListPumpSettings_Answered("lps_sleep4",
           [locals EXCEPT !.on = CheckIfOn(Reply(inflight[MainThread]))])

\* master.execute raises in one of the three reads: ListPumpSettings has no
\* handler, and neither has its caller.
ListPumpSettings_Fail ==
    /\ mainPc \in {"lps_units", "lps_limits", "lps_run"}
    /\ \E exc \in TransportErrors : Uncaught(exc)
    /\ settled' = FALSE
    /\ UNCHANGED <<INTERRUPT_FLAG, caller, queryLog, report, sink, coils, unit_coils, staleStop,
                   codecVars>>

\* The four logging.info lines: which local is written under which label.
SettingsReport(l) ==
    [units |-> <<l.PRESSURE_UNIT, l.FLOW_UNIT>>,
     maxPressure |-> <<l.limits[1], l.limits[3]>>,
     maxFlow |-> <<l.limits[2], l.limits[4]>>,
     pumps |-> <<l.on[1], l.on[2]>>]

\* ListPumpSettings_Report keeping the first settings block it ever logged.
ListPumpSettings_Report_Cached ==
    /\ mainPc = "lps_sleep4"
    /\ report' = IF report = NoReport THEN SettingsReport(locals) ELSE report
    /\ locals' = NoLocals
    /\ INTERRUPT_FLAG' = FALSE
    /\ mainPc' = IF caller = "setup" THEN "menu" ELSE "userInterrupt"
    /\ settled' = AfterSleep(MainThread)
    /\ clean' = clean \cup {MainThread}
    /\ UNCHANGED <<mainExc, cmd, caller, queryLog, poller, readings, unlogged, sink, inflight,
                   coils, unit_coils, staleStop, stopPending, codecVars>>

\* The last time.sleep(0.2) ends, the settings are logged, the flag is
\* cleared and the function returns: to main's menu from setup, to
\* userInterrupt() from the command loop.
ListPumpSettings_Report ==
    /\ mainPc = "lps_sleep4"
    /\ report' = SettingsReport(locals)
    /\ locals' = NoLocals
    /\ INTERRUPT_FLAG' = FALSE
    /\ mainPc' = IF caller = "setup" THEN "menu" ELSE "userInterrupt"
    /\ settled' = AfterSleep(MainThread)
    /\ clean' = clean \cup {MainThread}
    /\ UNCHANGED <<mainExc, cmd, caller, queryLog, poller, readings, unlogged, sink, inflight, coils,
                   unit_coils, staleStop, stopPending, codecVars>>


\* -------------------------------------------------------------------------
\* main(): the command loop
\* -------------------------------------------------------------------------
FreeSlots == {p \in Pollers : ~Alive(p)}
LowestFree == CHOOSE p \in FreeSlots : \A q \in FreeSlots : p <= q

\* main_Stream going back to the menu instead of on to userInterrupt().
main_Stream_NoWait ==
    /\ mainPc = "menu"
    /\ \E p \in Pollers : poller[p] = "idle"
    /\ INTERRUPT_FLAG' = FALSE
    /\ poller' = [poller EXCEPT
           ![CHOOSE p \in Pollers :
                 poller[p] = "idle" /\ \A q \in Pollers : poller[q] = "idle" => p <= q]
               = "check"]
    /\ stopPending' = {}
    /\ mainPc' = "menu"
    /\ \E waited \in BOOLEAN : settled' = AfterInput(MainThread, waited)
    /\ clean' = clean \cup {MainThread}
    /\ UNCHANGED <<mainExc, cmd, caller, queryLog, locals, report, readings,
                   unlogged, sink, inflight, coils, unit_coils, staleStop,
                   codecVars>>

\* main_Stream without the INTERRUPT_FLAG = False of line 343.
main_Stream_KeepsFlag ==
    /\ mainPc = "menu"
    /\ \E p \in Pollers : poller[p] = "idle"
    /\ poller' = [poller EXCEPT
           ![CHOOSE p \in Pollers :
                 poller[p] = "idle" /\ \A q \in Pollers : poller[q] = "idle" => p <= q]
               = "check"]
    /\ stopPending' = {}
    /\ mainPc' = "userInterrupt"
    /\ \E waited \in BOOLEAN : settled' = AfterInput(MainThread, waited)
    /\ clean' = clean \cup {MainThread}
    /\ UNCHANGED <<INTERRUPT_FLAG, mainExc, cmd, caller, queryLog, locals,
                   report, readings, unlogged, sink, inflight, coils, unit_coils,
                   staleStop, codecVars>>

\* cmd == 's': clear the flag, start a logReadings thread, go on to
\* userInterrupt().  Nothing looks at the threads started before.
main_Stream ==
    /\ mainPc = "menu"
    /\ FreeSlots # {}
    /\ INTERRUPT_FLAG' = FALSE
    /\ poller' = [poller EXCEPT ![LowestFree] = "check"]
    /\ stopPending' = {}
    /\ mainPc' = "userInterrupt"
    /\ \E waited \in BOOLEAN : settled' = AfterInput(MainThread, waited)
    /\ clean' = clean \cup {MainThread}
    /\ UNCHANGED <<mainExc, cmd, caller, queryLog, locals, report, readings, unlogged, sink, inflight,
                   coils, unit_coils, staleStop, codecVars>>

\* cmd == 'l': ListPumpSettings(master).
main_List ==
    /\ mainPc = "menu"
    /\ mainPc' = "lps_sleep1"
    /\ caller' = "main"
    /\ queryLog' = <<>>
    /\ \E waited \in BOOLEAN : settled' = AfterInput(MainThread, waited)
    /\ clean' = clean \cup {MainThread}
    /\ UNCHANGED <<INTERRUPT_FLAG, mainExc, cmd, locals, report, poller, readings, unlogged,
                   sink, inflight, coils, unit_coils, staleStop, stopPending, codecVars>>

\* cmd == 'c': ControlPumps(master).
main_Control ==
    /\ mainPc = "menu"
    /\ mainPc' = "cp_prompt"
    /\ \E waited \in BOOLEAN : settled' = AfterInput(MainThread, waited)
    /\ clean' = clean \cup {MainThread}
    /\ UNCHANGED <<INTERRUPT_FLAG, mainExc, cmd, caller, queryLog, locals, report, poller,
                   readings, unlogged, sink, inflight, coils, unit_coils, staleStop, stopPending,
                   codecVars>>

\* cmd == 'e': return from main.
main_Exit ==
    /\ mainPc = "menu"
    /\ mainPc' = "exited"
    /\ ProcessEnds
    /\ UNCHANGED <<INTERRUPT_FLAG, mainExc, cmd, caller, queryLog, report, sink, coils,
                   unit_coils, staleStop, settled, codecVars>>

\* Any other word: print and continue, without userInterrupt().
main_Unknown ==
    /\ mainPc = "menu"
    /\ \E waited \in BOOLEAN : settled' = AfterInput(MainThread, waited)
    /\ clean' = clean \cup {MainThread}
    /\ UNCHANGED <<INTERRUPT_FLAG, mainPc, mainExc, cmd, caller, queryLog, locals, report,
                   poller, readings, unlogged, sink, inflight, coils, unit_coils, staleStop,
                   stopPending, codecVars>>

\* -------------------------------------------------------------------------
\* ControlPumps(master)
\* -------------------------------------------------------------------------
\* onA / offA / onB / offB: the write is issued straight after raw_input.
ControlPumps_Write ==
    /\ mainPc = "cp_prompt"
    /\ \E word \in PumpCommands :
           /\ cmd' = word
           /\ inflight' = [inflight EXCEPT ![MainThread] = PumpCommandRequest(word)]
    /\ mainPc' = "cp_write"
    /\ \E waited \in BOOLEAN : settled' = AfterInput(MainThread, waited)
    /\ clean' = clean \ {MainThread}
    /\ UNCHANGED <<INTERRUPT_FLAG, mainExc, caller, queryLog, locals, report, poller,
                   readings, unlogged, sink, coils, unit_coils, staleStop, stopPending, codecVars>>

\* The device after a write-single-coil request.
Written(req) == [coils EXCEPT ![req.addr + 1] = req.val]

\* The write is acknowledged: log, clear the flag, prompt again (the word
\* just served is dead once the next raw_input is showing).
ControlPumps_WriteReply ==
    /\ mainPc = "cp_write"
    /\ coils' = Written(inflight[MainThread])
    /\ INTERRUPT_FLAG' = FALSE
    /\ mainPc' = "cp_prompt"
    /\ cmd' = ""
    /\ inflight' = [inflight EXCEPT ![MainThread] = NoReq]
    /\ settled' = FALSE
    /\ clean' = {MainThread}
    /\ UNCHANGED <<mainExc, caller, queryLog, locals, report, poller, readings, unlogged, sink,
                   unit_coils, staleStop, stopPending, codecVars>>

\* master.execute raises: no handler.  The device may or may not have taken
\* the write before the exchange failed.
ControlPumps_WriteFail ==
    /\ mainPc = "cp_write"
    /\ \E exc \in TransportErrors : Uncaught(exc)
    /\ \E taken \in BOOLEAN :
           coils' = IF taken THEN Written(inflight[MainThread]) ELSE coils
    /\ settled' = FALSE
    /\ UNCHANGED <<INTERRUPT_FLAG, caller, queryLog, report, sink, unit_coils, staleStop, codecVars>>

\* Any other word: print, clear the flag, prompt again.
ControlPumps_Unknown ==
    /\ mainPc = "cp_prompt"
    /\ INTERRUPT_FLAG' = FALSE
    /\ \E waited \in BOOLEAN : settled' = AfterInput(MainThread, waited)
    /\ clean' = clean \cup {MainThread}
    /\ UNCHANGED <<mainPc, mainExc, cmd, caller, queryLog, locals, report, poller, readings, unlogged,
                   sink, inflight, coils, unit_coils, staleStop, stopPending, codecVars>>

\* 'e': break (the flag is not touched) and return to main, which goes on
\* to userInterrupt().
ControlPumps_Exit ==
    /\ mainPc = "cp_prompt"
    /\ mainPc' = "userInterrupt"
    /\ \E waited \in BOOLEAN : settled' = AfterInput(MainThread, waited)
    /\ clean' = clean \cup {MainThread}
    /\ UNCHANGED <<INTERRUPT_FLAG, mainExc, cmd, caller, queryLog, locals, report, poller,
                   readings, unlogged, sink, inflight, coils, unit_coils, staleStop, stopPending,
                   codecVars>>

\* -------------------------------------------------------------------------
\* userInterrupt()
\* -------------------------------------------------------------------------
\* raw_input() returns, the flag is set, and control is back at the menu.
userInterrupt ==
    /\ mainPc = "userInterrupt"
    /\ INTERRUPT_FLAG' = TRUE
    /\ stopPending' = {p \in Pollers : Alive(p)}
    /\ staleStop' = (\A p \in Pollers : ~Alive(p))
    /\ mainPc' = "menu"
    /\ \E waited \in BOOLEAN : settled' = AfterInput(MainThread, waited)
    /\ clean' = clean \cup {MainThread}
    /\ UNCHANGED <<mainExc, cmd, caller, queryLog, locals, report, poller, readings, unlogged, sink,
                   inflight, coils, unit_coils, codecVars>>

\* -------------------------------------------------------------------------
\* logReadings(master, data_logger), one thread per slot
\* -------------------------------------------------------------------------
AtLoopTest(p) == poller[p] \in {"check", "sleep"}

\* The time.sleep(1/SAMPLE_FREQ) of thread p, if it is in one, has ended.
AfterTickWait(p) == IF poller[p] = "sleep" THEN AfterSleep(p) ELSE settled

\* The while test finds the flag False: ReadRegisters issues the live read.
logReadings_Tick(p) ==
    /\ AtLoopTest(p)
    /\ INTERRUPT_FLAG = FALSE
    /\ poller' = [poller EXCEPT ![p] = "read"]
    /\ inflight' = [inflight EXCEPT ![p] = ReadRegistersRequest]
    /\ settled' = AfterTickWait(p)
    /\ clean' = clean \ {p}
    /\ UNCHANGED <<INTERRUPT_FLAG, mainPc, mainExc, cmd, caller, queryLog, locals, report,
                   readings, unlogged, sink, coils, unit_coils, staleStop, stopPending, codecVars>>

\* ReadRegisters_Reply with the thread going straight on to its sleep: the
\* sample of the tick is never logged.
ReadRegisters_Reply_SampleDropped(p) ==
    /\ poller[p] = "read"
    /\ readings' = [readings EXCEPT ![p] = <<>>]
    /\ unlogged' = [unlogged EXCEPT ![p] = @ + 1]
    /\ poller' = [poller EXCEPT ![p] = "sleep"]
    /\ inflight' = [inflight EXCEPT ![p] = NoReq]
    /\ settled' = FALSE
    /\ clean' = {p}
    /\ UNCHANGED <<INTERRUPT_FLAG, mainPc, mainExc, cmd, caller, queryLog,
                   locals, report, sink, coils, unit_coils, staleStop,
                   stopPending, codecVars>>

\* The live read is answered and decoded.
ReadRegisters_Reply(p) ==
    /\ poller[p] = "read"
    /\ readings' = [readings EXCEPT ![p] = ReadRegisters(Reply(inflight[p]))]
    /\ unlogged' = [unlogged EXCEPT ![p] = @ + 1]
    /\ poller' = [poller EXCEPT ![p] = "emit"]
    /\ inflight' = [inflight EXCEPT ![p] = NoReq]
    /\ settled' = FALSE
    /\ clean' = {}
    /\ UNCHANGED <<INTERRUPT_FLAG, mainPc, mainExc, cmd, caller, queryLog, locals, report,
                   sink, coils, unit_coils, staleStop, stopPending, codecVars>>

\* master.execute raises in the thread: nothing catches it, the thread ends
\* with a traceback; the foreground is not told.
ReadRegisters_Fail(p) ==
    /\ poller[p] = "read"
    /\ poller' = [poller EXCEPT ![p] = "idle"]
    /\ inflight' = [inflight EXCEPT ![p] = NoReq]
    /\ stopPending' = stopPending \ {p}
    /\ settled' = FALSE
    /\ clean' = {}
    /\ UNCHANGED <<INTERRUPT_FLAG, mainPc, mainExc, cmd, caller, queryLog, locals, report,
                   readings, unlogged, sink, coils, unit_coils, staleStop, codecVars>>

\* data_logger.info(...): the sample goes to the sink; time.sleep begins.
logReadings_Emit(p) ==
    /\ poller[p] = "emit"
    /\ sink' = readings[p]
    /\ readings' = [readings EXCEPT ![p] = <<>>]
    /\ unlogged' = [unlogged EXCEPT ![p] = @ - 1]
    /\ poller' = [poller EXCEPT ![p] = "sleep"]
    /\ clean' = clean \cup {p}
    /\ UNCHANGED <<INTERRUPT_FLAG, mainPc, mainExc, cmd, caller, queryLog, locals, report,
                   inflight, coils, unit_coils, staleStop, settled, stopPending, codecVars>>

\* The while test finds the flag True: the loop is left.
logReadings_ObserveStop(p) ==
    /\ AtLoopTest(p)
    /\ INTERRUPT_FLAG = TRUE
    /\ poller' = [poller EXCEPT ![p] = "exiting"]
    /\ settled' = AfterTickWait(p)
    /\ clean' = clean \ {p}
    /\ UNCHANGED <<INTERRUPT_FLAG, mainPc, mainExc, cmd, caller, queryLog, locals, report,
                   readings, unlogged, sink, inflight, coils, unit_coils, staleStop, stopPending,
                   codecVars>>

\* logging.debug, INTERRUPT_FLAG = False, return: the thread is gone.
logReadings_Return(p) ==
    /\ poller[p] = "exiting"
    /\ INTERRUPT_FLAG' = FALSE
    /\ poller' = [poller EXCEPT ![p] = "idle"]
    /\ stopPending' = stopPending \ {p}
    /\ UNCHANGED <<mainPc, mainExc, cmd, caller, queryLog, locals, report, readings, unlogged, sink,
                   inflight, coils, unit_coils, staleStop, settled, clean, codecVars>>

logReadings(p) ==
    \/ logReadings_Tick(p)
    \/ ReadRegisters_Reply(p)
    \/ ReadRegisters_Fail(p)
    \/ logReadings_Emit(p)
    \/ logReadings_ObserveStop(p)
    \/ logReadings_Return(p)

\* -------------------------------------------------------------------------
\* The session
\* -------------------------------------------------------------------------
Next ==
    \/ setup_Exit
    \/ setup_Probe
    \/ setup_ProbeReply
    \/ setup_ProbeFail
    \/ ListPumpSettings_ReadUnits
    \/ ListPumpSettings_ReadUnitsReply
    \/ ListPumpSettings_CheckMaxPressureFlow
    \/ ListPumpSettings_CheckMaxPressureFlowReply
    \/ ListPumpSettings_CheckIfOn
    \/ ListPumpSettings_CheckIfOnReply
    \/ ListPumpSettings_Fail
    \/ ListPumpSettings_Report
    \/ main_Stream
    \/ main_List
    \/ main_Control
    \/ main_Exit
    \/ main_Unknown
    \/ ControlPumps_Write
    \/ ControlPumps_WriteReply
    \/ ControlPumps_WriteFail
    \/ ControlPumps_Unknown
    \/ ControlPumps_Exit
    \/ userInterrupt
    \/ \E p \in Pollers : logReadings(p)

Spec == Init /\ [][Next]_vars

\* The steps of the foreground that wait for no input: a time.sleep ends, a
\* request on the wire ends (with a reply or with an exception).
main_Runs ==
    \/ setup_ProbeReply
    \/ setup_ProbeFail
    \/ ListPumpSettings_ReadUnits
    \/ ListPumpSettings_ReadUnitsReply
    \/ ListPumpSettings_CheckMaxPressureFlow
    \/ ListPumpSettings_CheckMaxPressureFlowReply
    \/ ListPumpSettings_CheckIfOn
    \/ ListPumpSettings_CheckIfOnReply
    \/ ListPumpSettings_Fail
    \/ ListPumpSettings_Report
    \/ ControlPumps_WriteReply
    \/ ControlPumps_WriteFail

\* Every thread that can run is scheduled again and again, and a request on
\* the wire ends (with a reply or, after the 5 s timeout, with an
\* exception); the user owes the prompts nothing.
FairSpec ==
    /\ Init
    /\ [][Next]_vars
    /\ WF_vars(main_Runs)
    /\ \A p \in Pollers : WF_vars(logReadings(p))


\* -------------------------------------------------------------------------
\* The codec on its own: ReadUnits applied to every 8-bit coil vector
\* -------------------------------------------------------------------------
\* Register words the codec is tried on: both ends of the range, the two
\* sides of the sign bit and of the byte boundary, and the words of 3.14.
WordSamples ==
    {w \in Words : w < 4 \/ w > WordBase - 5}
        \cup {255, 256, 16456, 32767, 32768, 62915, 65279, 65280}

CodecInit ==
    /\ ProgInit
    /\ codecOut = <<>>
    /\ \/ /\ codecPc = "in"
          /\ codecIn \in BitVectors(UNITS_COUNT)
       \/ /\ codecPc = "in_CheckIfOn"
          /\ codecIn \in BitVectors(PUMP_STATUS_COUNT)
       \/ /\ codecPc = "in_TupleToFloat"
          /\ codecIn \in WordSamples \X WordSamples

Codec_ReadUnits ==
    /\ codecPc = "in"
    /\ codecOut' = ReadUnits(codecIn)
    /\ codecPc' = "out"
    /\ UNCHANGED <<progVars, codecIn>>

Codec_CheckIfOn ==
    /\ codecPc = "in_CheckIfOn"
    /\ codecOut' = CheckIfOn(codecIn)
    /\ codecPc' = "out_CheckIfOn"
    /\ UNCHANGED <<progVars, codecIn>>

Codec_TupleToFloat ==
    /\ codecPc = "in_TupleToFloat"
    /\ codecOut' = TupleToFloat(codecIn)
    /\ codecPc' = "out_TupleToFloat"
    /\ UNCHANGED <<progVars, codecIn>>

CodecNext ==
    \/ Codec_ReadUnits
    \/ Codec_CheckIfOn
    \/ Codec_TupleToFloat

CodecSpec == CodecInit /\ [][CodecNext]_vars

\* -------------------------------------------------------------------------
\* Properties
\* -------------------------------------------------------------------------
AlivePollers == {p \in Pollers : Alive(p)}

\* C1: the channel is never accessed concurrently: no live read of a
\* logReadings thread is in flight while a request of the foreground
\* (a read of ListPumpSettings, a coil write of ControlPumps) is in flight.
C1_ChannelNeverShared ==
    \A p \in Pollers : ~(InFlight(p) /\ InFlight(MainThread))

\* C2: at most one logReadings thread is alive in every reachable state.
C2_AtMostOnePoller == Cardinality(AlivePollers) <= 1

\* C3: a stop requested while a logReadings thread is running is never
\* lost: once INTERRUPT_FLAG is True with the thread alive, the thread
\* eventually ends, whatever the foreground does afterwards.
C3_StopNeverLost ==
    \A p \in Pollers : (INTERRUPT_FLAG /\ Alive(p)) ~> ~Alive(p)

\* C4: stop is synchronous: whenever the foreground is back at the menu
\* prompt, no logReadings thread is alive and no live read is in flight.
C4_StopIsSynchronous ==
    mainPc = "menu" => \A p \in Pollers : ~Alive(p) /\ ~InFlight(p)

\* C5: once a stop has been requested, a logReadings thread that was alive
\* at the request begins no new tick (its loop test never again sends it on
\* to a live read) until streaming is started again.
C5_NoTickAfterStop ==
    [][\A p \in Pollers :
          (p \in stopPending /\ AtLoopTest(p)) => poller'[p] # "read"]_vars

\* C6: no request is issued back-to-back with another: whenever a thread
\* puts a request on the wire, no other request is in flight and a settling
\* delay has elapsed since the last request completed.
C6_SettlingDelayBetweenRequests ==
    [][\A t \in Threads :
          (inflight[t] = NoReq /\ inflight'[t] # NoReq)
              => /\ settled'
                 /\ \A u \in Threads \ {t} : inflight[u] = NoReq]_vars

\* C7: a configuration query issues its reads in the fixed order units,
\* limits, run states (three of them when it runs to its end), each one out
\* of a time.sleep, and what it logs is what the device holds at that query.
QueryOrder ==
    <<ReadUnitsRequest, CheckMaxPressureFlowRequest, CheckIfOnRequest>>

QuerySleeps == {"lps_sleep1", "lps_sleep2", "lps_sleep3"}

C7_QueryReadsInOrderUncached ==
    [][/\ queryLog' = SubSeq(QueryOrder, 1, Len(queryLog'))
       /\ (queryLog' # queryLog /\ queryLog' # <<>>) => mainPc \in QuerySleeps
       /\ (mainPc = "lps_sleep4" /\ mainPc' # "lps_sleep4")
             => /\ queryLog' = QueryOrder
                /\ report'.units = <<ReadUnits(unit_coils).PRESSURE_UNIT,
                                     ReadUnits(unit_coils).FLOW_UNIT>>
                /\ report'.pumps = CheckIfOn(coils)
                /\ report'.maxPressure =
                       <<TupleToFloat(<<HoldingRegister(LIMITS_ADDRESS),
                                        HoldingRegister(LIMITS_ADDRESS + 1)>>),
                         TupleToFloat(<<HoldingRegister(LIMITS_ADDRESS + 2),
                                        HoldingRegister(LIMITS_ADDRESS + 3)>>)>>
                /\ report'.maxFlow =
                       <<TupleToFloat(<<HoldingRegister(LIMITS_ADDRESS + 16),
                                        HoldingRegister(LIMITS_ADDRESS + 17)>>),
                         TupleToFloat(<<HoldingRegister(LIMITS_ADDRESS + 18),
                                        HoldingRegister(LIMITS_ADDRESS + 19)>>)>>
      ]_vars

\* A query issued from the command loop has run to its end and logged the
\* run states the pumps have now.
C7_Witness ==
    /\ mainPc = "userInterrupt"
    /\ caller = "main"
    /\ queryLog = QueryOrder
    /\ coils = <<1, 0>>
    /\ report.pumps = <<"on", "off">>

\* C8: a transport failure never ends the command loop: the foreground is
\* never brought down by a Timeout or an invalid response.
C8_TransportFailureSurvived ==
    ~(mainPc = "crashed" /\ mainExc \in TransportErrors)

\* C9: unit decoding is total: for every 8-bit coil vector ReadUnits returns
\* (with an undefined marker for an empty nibble) and raises nothing.
C9_UnitDecodingTotal ==
    codecPc = "out" => codecOut.exc = "none"

\* C10: with a bit set in each nibble, ReadUnits returns the unit of the
\* lowest set bit of bits 0-3 as pressure unit and of the lowest set bit of
\* bits 4-7 as flow unit, each nibble on its own.
PressureUnits == <<"ATM", "BAR", "kPa", "PSI">>
FlowUnits == <<"ml/min", "ml/hr", "ul/min", "ul/hr">>

LowestSet(bits) ==
    CHOOSE i \in 1..Len(bits) : bits[i] # 0 /\ \A j \in 1..(i - 1) : bits[j] = 0

HasSetBit(bits) == \E i \in 1..Len(bits) : bits[i] # 0

C10_LowestSetBitWins ==
    LET pressureBits == SubSeq(codecIn, 1, 4)
        flowBits == SubSeq(codecIn, 5, 8)
    IN  (codecPc = "out" /\ HasSetBit(pressureBits) /\ HasSetBit(flowBits))
            => /\ codecOut.exc = "none"
               /\ codecOut.PRESSURE_UNIT = PressureUnits[LowestSet(pressureBits)]
               /\ codecOut.FLOW_UNIT = FlowUnits[LowestSet(flowBits)]

\* Several bits set in each nibble: BAR and ul/min are the lowest ones.
C10_Witness ==
    /\ codecPc = "out"
    /\ codecIn = <<0, 1, 1, 0, 0, 0, 1, 1>>
    /\ codecOut.PRESSURE_UNIT = "BAR"
    /\ codecOut.FLOW_UNIT = "ul/min"


\* C11: each pump command issues exactly one write-single-coil request, to
\* coil 0 for pump A and coil 1 for pump B, with value 1 for on and 0 for
\* off; nothing is read back, and the other pump's coil keeps its value.
PumpCoil(word) == IF word \in {"onA", "offA"} THEN 0 ELSE 1
PumpValue(word) == IF word \in {"onA", "onB"} THEN 1 ELSE 0
OtherCoil(coil) == 1 - coil

C11_OneCoilWritePerPumpCommand ==
    [][/\ (mainPc = "cp_prompt" /\ mainPc' = "cp_write")
             => /\ cmd' \in PumpCommands
                /\ inflight'[MainThread] =
                       [fn |-> WRITE_SINGLE_COIL, addr |-> PumpCoil(cmd'),
                        n |-> 1, val |-> PumpValue(cmd')]
       /\ (mainPc = "cp_write" /\ mainPc' = "cp_prompt")
             => /\ coils'[PumpCoil(cmd) + 1] = PumpValue(cmd)
                /\ coils'[OtherCoil(PumpCoil(cmd)) + 1] =
                       coils[OtherCoil(PumpCoil(cmd)) + 1]
                /\ inflight'[MainThread] = NoReq
       /\ (mainPc = "cp_write" /\ mainPc' # "cp_write")
             => coils'[OtherCoil(PumpCoil(cmd)) + 1] =
                    coils[OtherCoil(PumpCoil(cmd)) + 1]
       /\ mainPc \in {"cp_prompt", "cp_write"}
             => inflight'[MainThread].fn \in {"none", WRITE_SINGLE_COIL}
      ]_vars

\* onB has been typed while pump A runs and pump B does not: its one write,
\* to coil 1 with value 1, is on the wire.
C11_Witness ==
    /\ mainPc = "cp_write"
    /\ cmd = "onB"
    /\ coils = <<1, 0>>
    /\ inflight[MainThread] = WriteReq(1, 1)


\* C12: for every 2-bit coil vector CheckIfOn reports pump A on exactly when
\* bit 0 is set and pump B on exactly when bit 1 is set, each on its own.
C12_PumpStateDecoding ==
    codecPc = "out_CheckIfOn"
        => /\ codecOut[1] = (IF codecIn[1] = 1 THEN "on" ELSE "off")
           /\ codecOut[2] = (IF codecIn[2] = 1 THEN "on" ELSE "off")

\* [1,0] has been decoded: A on, B off.
C12_Witness ==
    /\ codecPc = "out_CheckIfOn"
    /\ codecIn = <<1, 0>>
    /\ codecOut = <<"on", "off">>

\* C13: for 16-bit words w0, w1 the pattern TupleToFloat reinterprets is
\* (w0 << 16) | w1: the sum (w0 << 16) + w1 carries nothing into the high
\* word, lies in 0..2^32-1, and gives w0 and w1 back (so it is injective).
RECURSIVE BitOr(_, _)
BitOr(a, b) ==
    IF a = 0 THEN b
    ELSE IF b = 0 THEN a
    ELSE (IF a % 2 = 1 \/ b % 2 = 1 THEN 1 ELSE 0) + 2 * BitOr(a \div 2, b \div 2)

C13_PatternIsHighWordLowWord ==
    codecPc = "out_TupleToFloat"
        => LET w0 == codecIn[1]
               w1 == codecIn[2]
           IN  /\ codecOut[1] \in Words
               /\ codecOut[2] \in Words
               /\ codecOut = <<BitOr(w0, 0), BitOr(0, w1)>>
               /\ codecOut = <<w0, w1>>

\* 0x4048 and 0xF5C3 have been combined into 0x4048F5C3.
C13_Witness ==
    /\ codecPc = "out_TupleToFloat"
    /\ codecIn = <<16456, 62915>>
    /\ codecOut = <<16456, 62915>>


\* C14: a stop signalled while no logReadings thread is running is never
\* seen by a thread started afterwards: as long as the last stop signal is
\* such a stale one, the flag is down whenever a thread is alive, so no
\* thread leaves its loop on it.
C14_StaleStopIsNoOp ==
    (staleStop /\ AlivePollers # {}) => INTERRUPT_FLAG = FALSE

\* Enter was pressed with no thread running, streaming was started after it
\* and has gone through a whole tick.
C14_Witness ==
    /\ staleStop
    /\ mainPc = "userInterrupt"
    /\ \E p \in Pollers : poller[p] = "sleep"


\* C15 as stated: at every moment each logReadings thread has given the sink
\* as many samples as it has had live reads answered.
C15_SamplesEqualReadsAtEveryMoment ==
    \A p \in Pollers : unlogged[p] = 0

\* C15: every tick is one live read of holding registers 72-81, then one
\* sample given to the sink, then the inter-tick wait: the samples of a
\* thread equal its answered reads at every loop test and in every wait, the
\* reads lead by exactly one between a read's answer and the data_logger.info
\* of the same tick, and no sample is given without the read of its tick.
C15_OneSamplePerRead ==
    [][\A p \in Pollers :
          /\ unlogged'[p] = (IF poller'[p] = "emit" THEN 1 ELSE 0)
          /\ (poller[p] # "read" /\ poller'[p] = "read")
                => inflight'[p] = [fn |-> READ_HOLDING_REGISTERS, addr |-> 72,
                                   n |-> 10, val |-> 0]
          /\ (poller[p] = "emit" /\ poller'[p] = "sleep")
                => /\ sink' = readings[p]
                   /\ unlogged'[p] = unlogged[p] - 1
          /\ (poller[p] = poller'[p] /\ poller[p] # "emit")
                => unlogged'[p] = unlogged[p]
      ]_vars

\* A thread has read, logged its sample and is in its inter-tick wait.
C15_Witness ==
    \E p \in Pollers :
        /\ poller[p] = "sleep"
        /\ unlogged[p] = 0
        /\ sink # <<>>


\* C16: the inter-tick wait is cancellable: the stop signal itself takes a
\* logReadings thread that is waiting between ticks out of its wait, the
\* rest of the sample period need not elapse.
C16_StopCancelsTheWait ==
    [][(INTERRUPT_FLAG = FALSE /\ INTERRUPT_FLAG' = TRUE)
          => \A p \in Pollers : poller[p] = "sleep" => poller'[p] # "sleep"]_vars

\* C17: the register map.  The live read asks for 10 words at register 72
\* and logs the pairs [0:2], [2:4], [6:8], [8:10] as pressure A, flow A,
\* pressure B, flow B; the limits read asks for 20 words at register 32 and
\* logs [0:2], [2:4] as max pressure of A and B and [16:18], [18:20] as max
\* flow of A and B.
RegisterPair(first) == <<HoldingRegister(first), HoldingRegister(first + 1)>>

C17_RegisterMap ==
    [][/\ \A p \in Pollers :
             /\ (poller[p] # "read" /\ poller'[p] = "read")
                   => inflight'[p] = [fn |-> READ_HOLDING_REGISTERS, addr |-> 72,
                                      n |-> 10, val |-> 0]
             /\ (poller[p] = "emit" /\ poller'[p] = "sleep")
                   => sink' = <<RegisterPair(72), RegisterPair(74),
                                RegisterPair(78), RegisterPair(80)>>
       /\ (mainPc # "lps_limits" /\ mainPc' = "lps_limits")
             => inflight'[MainThread] = [fn |-> READ_HOLDING_REGISTERS,
                                         addr |-> 32, n |-> 20, val |-> 0]
       /\ (mainPc = "lps_sleep4" /\ mainPc' # "lps_sleep4")
             => /\ report'.maxPressure = <<RegisterPair(32), RegisterPair(34)>>
                /\ report'.maxFlow = <<RegisterPair(48), RegisterPair(50)>>
      ]_vars

\* A sample and a settings block have both been logged.
C17_Witness ==
    /\ sink = <<RegisterPair(72), RegisterPair(74), RegisterPair(78), RegisterPair(80)>>
    /\ report # NoReport
    /\ report.maxFlow = <<RegisterPair(48), RegisterPair(50)>>

\* C18: the command loop orders starts and stops.  The menu is reached again
\* only through userInterrupt raising the flag (or, the first time, from
\* setup); a thread is started only by the menu's 's', which goes on to
\* userInterrupt; so a stop signal lies between any two starts.  A word the
\* menu does not know leaves the foreground at the menu and raises nothing.
C18_StopBetweenStarts ==
    [][/\ (mainPc # "menu" /\ mainPc' = "menu")
             => \/ mainPc = "userInterrupt" /\ INTERRUPT_FLAG' = TRUE
                \/ mainPc = "lps_sleep4" /\ caller = "setup"
       /\ (\E p \in Pollers : ~Alive(p) /\ poller'[p] # "idle")
             => mainPc = "menu" /\ mainPc' = "userInterrupt"
       /\ (mainPc = "menu" /\ mainPc' \in {"lps_sleep1", "cp_prompt"})
             => INTERRUPT_FLAG' = INTERRUPT_FLAG
       /\ (mainPc \in {"lps_sleep4", "cp_prompt"} /\ caller = "main"
              /\ mainPc' \notin {mainPc, "cp_write", "crashed"})
             => mainPc' = "userInterrupt"
       /\ (mainPc = "menu" /\ mainPc' = "menu")
             => ~(INTERRUPT_FLAG = FALSE /\ INTERRUPT_FLAG' = TRUE)
      ]_vars

\* Streaming was started and the stop signal has brought the foreground
\* back to the menu.
C18_Witness ==
    /\ mainPc = "menu"
    /\ INTERRUPT_FLAG = TRUE
    /\ stopPending # {}

\* C19: only the pump-control path writes.  A write request is put on the
\* wire only by the foreground serving a pump command in ControlPumps; the
\* logReadings threads, ListPumpSettings and the setup probe issue reads
\* only; the device's coils change only when such a write is served.
C19_OnlyPumpControlWrites ==
    [][/\ \A t \in Threads :
             (inflight'[t] # inflight[t] /\ inflight'[t].fn = WRITE_SINGLE_COIL)
                 => /\ t = MainThread
                    /\ mainPc = "cp_prompt"
                    /\ cmd' \in PumpCommands
       /\ \A t \in Threads :
             (inflight'[t] # inflight[t] /\ inflight'[t] # NoReq
                  /\ ~(t = MainThread /\ mainPc = "cp_prompt"))
                 => inflight'[t].fn \in {READ_COILS, READ_HOLDING_REGISTERS}
       /\ coils' # coils
             => /\ mainPc = "cp_write"
                /\ cmd \in PumpCommands
                /\ inflight[MainThread].fn = WRITE_SINGLE_COIL
       /\ unit_coils' = unit_coils
      ]_vars

\* The probe, two configuration queries and a tick of streaming have run,
\* and a live read is on the wire.
C19_Witness ==
    /\ caller = "main"
    /\ queryLog = QueryOrder
    /\ sink # <<>>
    /\ \E p \in Pollers : inflight[p].fn = READ_HOLDING_REGISTERS

====
